---- MODULE Spec2Model ----
(***************************************************************************)
(* Model of main.go: the lock-free ClientLimiter (Acquire / release) and   *)
(* downloadUrls (task queue, worker goroutines, results channel, fail-fast *)
(* collection loop with context cancellation).                             *)
(*                                                                         *)
(* Every goroutine is a process; one action is one atomic step of it (an   *)
(* atomic load, a compare-and-swap, a channel receive or send).  Code that *)
(* touches only locals of one goroutine is folded into the shared-memory   *)
(* or channel step that follows it: the return of downloadUrl is part of   *)
(* the worker's send.  Variables marked 'history' record what happened;    *)
(* no action of the program reads them.                                    *)
(***************************************************************************)
EXTENDS Integers, Sequences, FiniteSets, TLC

\* main.go:16, the size of the worker pool.  main.go sets 4; the model runs a
\* pool of 2, so that batches smaller than, equal to and larger than the
\* pool all occur within MaxBatch.
MaxConcurrentTasksPerRequest == 2
\* main.go:17, the limit of the limiter.  main.go sets 100; the model bounds
\* it so that NumReqs callers reach it.
MaxConcurrentClients == 2

\* main.go:18, the longest batch the handler accepts.  main.go sets 20; the
\* model runs with 2, the shortest limit of which a batch occupies the pool.
MaxUrlsPerRequest == 2

\* Number of goroutines that call the limiter / serve requests.
NumReqs == 3
\* Acquire calls the callers of the limiter harness make in total.
MaxCalls == 4
\* Longest batch handed to downloadUrls.
MaxBatch == 3

Reqs == 1..NumReqs
Workers == 1..MaxConcurrentTasksPerRequest

\* URLs of the environment: fetching a URL of FailingUrls fails (non-2xx
\* status or transport error), fetching one of GoodUrls succeeds unless the
\* context is cancelled meanwhile.
GoodUrls == {"a", "b"}
FailingUrls == {"bad"}
Urls == GoodUrls \cup FailingUrls

VARIABLES
  clientCount,      \* ClientLimiter.clientCount
  pc,               \* pc[c]: position of caller c in the limiter protocol
  current,          \* current[c]: the local 'current' of Acquire's do()
  calls,            \* Acquire calls started so far
  dirty,            \* history: clientCount was written by another caller since c's load
  startFull,        \* history: clientCount = max when c's running Acquire call started
  anyRelease,       \* history: some release has taken effect
  urls,             \* urls[r]: the batch given to downloadUrls
  tasks,            \* tasks[r]: the closed, buffered task channel (indices into urls[r])
  results,          \* results[r]: the buffered results channel
  wpc,              \* wpc[r][w]: position of worker w of batch r
  wtask,            \* wtask[r][w]: entry the worker holds (0: none)
  opc,              \* opc[r]: position of downloadUrls itself
  i,                \* i[r]: loop index of the collection loop
  ret,              \* ret[r]: the local slice 'ret'
  returned,         \* returned[r]: what downloadUrls returned
  cancelled,        \* cancelled[r]: cancelRequests() has been called
  parentCancelled,  \* parentCancelled[r]: the parent context is done
  fetched,          \* history: fetched[r][k] = the takes of entry k, each marked
                    \*   with whether downloadUrls had returned by then
  sent,             \* history: sent[r][k] = number of outcomes sent for entry k
  reads             \* history: reads[r] = receives the collection loop performed

limVars == <<clientCount, pc, current, calls, dirty, startFull, anyRelease>>
batchVars == <<urls, tasks, results, wpc, wtask, opc, i, ret, returned,
               cancelled, parentCancelled, fetched, sent, reads>>
vars == <<limVars, batchVars>>

NoReturn == [ret |-> <<>>, err |-> "pending"]

Init ==
  /\ clientCount = 0
  /\ pc = [c \in Reqs |-> "idle"]
  /\ current = [c \in Reqs |-> 0]
  /\ calls = 0
  /\ dirty = [c \in Reqs |-> FALSE]
  /\ startFull = [c \in Reqs |-> FALSE]
  /\ anyRelease = FALSE
  /\ urls = [r \in Reqs |-> <<>>]
  /\ tasks = [r \in Reqs |-> <<>>]
  /\ results = [r \in Reqs |-> <<>>]
  /\ wpc = [r \in Reqs |-> [w \in Workers |-> "none"]]
  /\ wtask = [r \in Reqs |-> [w \in Workers |-> 0]]
  /\ opc = [r \in Reqs |-> "none"]
  /\ i = [r \in Reqs |-> 0]
  /\ ret = [r \in Reqs |-> <<>>]
  /\ returned = [r \in Reqs |-> NoReturn]
  /\ cancelled = [r \in Reqs |-> FALSE]
  /\ parentCancelled = [r \in Reqs |-> FALSE]
  /\ fetched = [r \in Reqs |-> <<>>]
  /\ sent = [r \in Reqs |-> <<>>]
  /\ reads = [r \in Reqs |-> 0]

----------------------------------------------------------------------------
(* ClientLimiter *)

\* A caller starts an Acquire call (harness: MaxCalls calls in all).
CallAcquire(c) ==
  /\ pc[c] \in {"idle", "refused"}
  /\ calls < MaxCalls
  /\ pc' = [pc EXCEPT ![c] = "load"]
  /\ calls' = calls + 1
  /\ startFull' = [startFull EXCEPT ![c] = (clientCount >= MaxConcurrentClients)]
  /\ UNCHANGED <<clientCount, current, dirty, anyRelease, batchVars>>

\* History: caller c wrote clientCount; every caller that sits between its
\* load and its compare-and-swap has now seen another caller's write.
MarkDirty(c) ==
  [d \in Reqs |-> IF d = c THEN FALSE ELSE IF pc[d] = "cas" THEN TRUE ELSE dirty[d]]

\* Mutation of LimitTest: the limit test off by one.
LimitTestOffByOne(cur) == cur > MaxConcurrentClients

\* do(): current := atomic.LoadInt32(&c.clientCount); the limit test on it.
LimitTest(cur) == cur >= MaxConcurrentClients

\* (current is a local: it is 0 in the model outside a call.)
AcquireLoad(c) ==
  /\ pc[c] = "load"
  /\ current' = [current EXCEPT ![c] = IF LimitTest(clientCount) THEN 0 ELSE clientCount]
  /\ dirty' = [dirty EXCEPT ![c] = FALSE]
  /\ pc' = [pc EXCEPT ![c] = IF LimitTest(clientCount) THEN "refused" ELSE "cas"]
  /\ UNCHANGED <<clientCount, calls, startFull, anyRelease, batchVars>>

\* Mutation of CasRetryPc: a failed swap makes Acquire return the error.
CasRetryFails == "refused"

\* Mutation of CasRetryPc: the loop repeats the swap with the stale value.
CasRetryStale == "cas"

\* Where the loop of Acquire goes after a failed compare-and-swap.
CasRetryPc == "load"

\* Mutation of AcquireCas: a plain store of current+1 without the compare.
AcquireCasBlind(c) ==
  /\ pc[c] = "cas"
  /\ clientCount' = current[c] + 1
  /\ pc' = [pc EXCEPT ![c] = "acquired"]
  /\ current' = [current EXCEPT ![c] = 0]
  /\ dirty' = MarkDirty(c)
  /\ UNCHANGED <<calls, startFull, anyRelease, batchVars>>

\* do(): atomic.CompareAndSwapInt32(&c.clientCount, current, current+1), and
\* the loop around it: return nil when it took effect, else call do() again.
AcquireCas(c) ==
  /\ pc[c] = "cas"
  /\ IF clientCount = current[c]
       THEN /\ clientCount' = current[c] + 1
            /\ pc' = [pc EXCEPT ![c] = "acquired"]
            /\ current' = [current EXCEPT ![c] = 0]
            /\ dirty' = MarkDirty(c)
       ELSE /\ pc' = [pc EXCEPT ![c] = CasRetryPc]
            /\ UNCHANGED <<clientCount, current, dirty>>
  /\ UNCHANGED <<calls, startFull, anyRelease, batchVars>>

\* release(): atomic.AddInt32(&c.clientCount, -1), by a caller whose Acquire
\* succeeded, once.
ReleaseDelta == -1

Release(c) ==
  /\ pc[c] = "acquired"
  /\ clientCount' = clientCount + ReleaseDelta
  /\ pc' = [pc EXCEPT ![c] = "idle"]
  /\ dirty' = MarkDirty(c)
  /\ anyRelease' = TRUE
  /\ startFull' = [startFull EXCEPT ![c] = FALSE]
  /\ UNCHANGED <<current, calls, batchVars>>

NextLimiter ==
  \E c \in Reqs :
    \/ CallAcquire(c)
    \/ AcquireLoad(c)
    \/ AcquireCas(c)
    \/ Release(c)

SpecLimiter == Init /\ [][NextLimiter]_vars

\* Fair scheduling of the goroutines inside Acquire.
FairLimiter ==
  /\ SpecLimiter
  /\ \A c \in Reqs : WF_vars(AcquireLoad(c)) /\ WF_vars(AcquireCas(c))

----------------------------------------------------------------------------
(* downloadUrls *)

\* The batches handed to downloadUrls: every sequence of URLs, duplicates
\* included, of length 0..MaxBatch.
Batches == UNION {[1..n -> Urls] : n \in 0..MaxBatch}

\* The request whose downloadUrls call is followed.
BatchReqs == {1}

\* ctx of downloadUrls is done: cancelRequests() was called or the parent is done.
CtxDone(r) == cancelled[r] \/ parentCancelled[r]

\* string(ret) of a successful downloadUrl(url), and of a failed one (ret = nil).
Body(u) == <<"body", u>>
NoBody == <<>>

\* The err downloadUrl(ctx, client, url) can return: nil for a URL that
\* answers 2xx, an error for one that does not, the context's error once the
\* context is done.
FetchErrs(r, u) ==
  (IF u \in FailingUrls THEN {"fail"} ELSE {"nil"})
    \cup (IF CtxDone(r) THEN {"ctx"} ELSE {})

\* Mutation of TaskResult: the Err field is left out of the literal.
TaskResultNoErr(u, e, k) ==
  [Url |-> u, Result |-> IF e = "nil" THEN Body(u) ELSE NoBody, Err |-> "nil", idx |-> k]

\* TaskResult{Err: err, Result: string(ret), Url: url}; idx is the queue
\* entry the outcome comes from (history).
TaskResult(u, e, k) ==
  [Url |-> u, Result |-> IF e = "nil" THEN Body(u) ELSE NoBody, Err |-> e, idx |-> k]

\* downloadUrls up to the collection loop: the cancellable context, the task
\* channel filled with every URL and closed, the results channel of capacity
\* len(urls), and the MaxConcurrentTasksPerRequest worker goroutines started.
downloadUrls(r, us) ==
  /\ opc[r] = "none"
  /\ urls' = [urls EXCEPT ![r] = us]
  /\ tasks' = [tasks EXCEPT ![r] = [k \in 1..Len(us) |-> k]]
  /\ results' = [results EXCEPT ![r] = <<>>]
  /\ wpc' = [wpc EXCEPT ![r] = [w \in Workers |-> "range"]]
  /\ ret' = [ret EXCEPT ![r] = <<>>]
  /\ i' = [i EXCEPT ![r] = 0]
  /\ opc' = [opc EXCEPT ![r] = "collect"]
  /\ fetched' = [fetched EXCEPT ![r] = [k \in 1..Len(us) |-> <<>>]]
  /\ sent' = [sent EXCEPT ![r] = [k \in 1..Len(us) |-> 0]]
  /\ UNCHANGED <<wtask, returned, cancelled, parentCancelled, reads, limVars>>

\* Mutation of ResultsCap: the channel is one slot short of the batch.
ResultsCapShort(r) == Len(urls[r]) - 1

\* Capacity of the results channel: make(chan TaskResult, len(urls)).
ResultsCap(r) == Len(urls[r])

\* Mutation of TasksAfterTake: the worker reads the head and leaves it queued.
TasksAfterPeek(q) == q

\* The task channel after a receive.
TasksAfterTake(q) == Tail(q)

\* Mutation of TasksClosed: close(tasks) is missing.
TasksNeverClosed(r) == FALSE

\* close(tasks) has run before any worker starts.
TasksClosed(r) == opc[r] # "none"

\* worker: 'for url := range tasks': take the next queued entry and call
\* downloadUrl on it, or leave the loop when the closed channel is empty.
WorkerRange(r, w) ==
  /\ wpc[r][w] = "range"
  /\ IF tasks[r] # <<>>
       THEN /\ tasks' = [tasks EXCEPT ![r] = TasksAfterTake(@)]
            /\ wtask' = [wtask EXCEPT ![r][w] = Head(tasks[r])]
            /\ fetched' = [fetched EXCEPT ![r][Head(tasks[r])] = Append(@, opc[r] # "collect")]
            /\ wpc' = [wpc EXCEPT ![r][w] = "fetch"]
       ELSE /\ TasksClosed(r)
            /\ wpc' = [wpc EXCEPT ![r][w] = "done"]
            /\ UNCHANGED <<tasks, wtask, fetched>>
  /\ UNCHANGED <<urls, results, opc, i, ret, returned, cancelled,
                 parentCancelled, sent, reads, limVars>>

\* Mutation of AfterSendPc: the worker handles one entry and ends ('if'
\* instead of 'for ... range').
AfterSendEnds == "done"

\* Where the worker goes after its send: round the 'for url := range tasks'.
AfterSendPc == "range"

\* worker: downloadUrl(ctx, client, url) returns ret, err and the worker
\* sends results <- TaskResult{...}; the send blocks while the channel is full.
WorkerSend(r, w) ==
  /\ wpc[r][w] = "fetch"
  /\ Len(results[r]) < ResultsCap(r)
  /\ \E e \in FetchErrs(r, urls[r][wtask[r][w]]) :
       results' = [results EXCEPT ![r] =
                     Append(@, TaskResult(urls[r][wtask[r][w]], e, wtask[r][w]))]
  /\ sent' = [sent EXCEPT ![r][wtask[r][w]] = @ + 1]
  /\ wtask' = [wtask EXCEPT ![r][w] = 0]
  /\ wpc' = [wpc EXCEPT ![r][w] = AfterSendPc]
  /\ UNCHANGED <<urls, tasks, opc, i, ret, returned, cancelled, parentCancelled,
                 fetched, reads, limVars>>

\* Mutation of ResultsAfterRecv: the outcome read stays in the channel.
ResultsAfterPeek(q) == q

\* The results channel after the receive 'result := <-results'.
ResultsAfterRecv(q) == Tail(q)

\* Mutation of CollectMore: the loop stops one result short.
CollectMoreShort(r) == i[r] + 1 < Len(urls[r])

\* Mutation of CollectMore: the loop tests its condition after the body.
CollectMoreDoWhile(r) == i[r] < Len(urls[r]) \/ reads[r] = 0

\* Condition of the collection loop: i < len(urls).
CollectMore(r) == i[r] < Len(urls[r])

\* The error downloadUrls returns for an outcome: it names result.Url and
\* result.Err.
BatchErr(res) == <<res.Url, res.Err>>

\* Mutation of OrchCollect: the error return waits for the workers to end.
OrchCollectWaits(r) ==
  /\ opc[r] = "collect"
  /\ CollectMore(r)
  /\ results[r] # <<>>
  /\ results' = [results EXCEPT ![r] = ResultsAfterRecv(@)]
  /\ reads' = [reads EXCEPT ![r] = @ + 1]
  /\ IF Head(results[r]).Err # "nil"
       THEN /\ \A w \in Workers : wpc[r][w] = "done"
            /\ cancelled' = [cancelled EXCEPT ![r] = TRUE]
            /\ returned' = [returned EXCEPT ![r] =
                              [ret |-> <<>>, err |-> BatchErr(Head(results[r]))]]
            /\ opc' = [opc EXCEPT ![r] = "err"]
            /\ ret' = [ret EXCEPT ![r] = <<>>]
            /\ i' = [i EXCEPT ![r] = 0]
       ELSE /\ ret' = [ret EXCEPT ![r] = Append(@, Head(results[r]))]
            /\ i' = [i EXCEPT ![r] = @ + 1]
            /\ UNCHANGED <<cancelled, returned, opc>>
  /\ UNCHANGED <<urls, tasks, wpc, wtask, parentCancelled, fetched, sent, limVars>>

\* Mutation of OrchCollect: the error names the URL at the loop index
\* (submission order) instead of the URL of the outcome read.
OrchCollectNamesByIndex(r) ==
  /\ opc[r] = "collect"
  /\ CollectMore(r)
  /\ results[r] # <<>>
  /\ results' = [results EXCEPT ![r] = ResultsAfterRecv(@)]
  /\ reads' = [reads EXCEPT ![r] = @ + 1]
  /\ IF Head(results[r]).Err # "nil"
       THEN /\ cancelled' = [cancelled EXCEPT ![r] = TRUE]
            /\ returned' = [returned EXCEPT ![r] =
                              [ret |-> <<>>,
                               err |-> <<urls[r][i[r] + 1], Head(results[r]).Err>>]]
            /\ opc' = [opc EXCEPT ![r] = "err"]
            /\ ret' = [ret EXCEPT ![r] = <<>>]
            /\ i' = [i EXCEPT ![r] = 0]
       ELSE /\ ret' = [ret EXCEPT ![r] = Append(@, Head(results[r]))]
            /\ i' = [i EXCEPT ![r] = @ + 1]
            /\ UNCHANGED <<cancelled, returned, opc>>
  /\ UNCHANGED <<urls, tasks, wpc, wtask, parentCancelled, fetched, sent, limVars>>

\* Mutation of OrchCollect: on an error the loop cancels and keeps
\* collecting; the error of the last round is the one returned.
OrchCollectReportsLast(r) ==
  /\ opc[r] = "collect"
  /\ CollectMore(r)
  /\ results[r] # <<>>
  /\ results' = [results EXCEPT ![r] = ResultsAfterRecv(@)]
  /\ reads' = [reads EXCEPT ![r] = @ + 1]
  /\ IF Head(results[r]).Err # "nil" /\ i[r] + 1 = Len(urls[r])
       THEN /\ cancelled' = [cancelled EXCEPT ![r] = TRUE]
            /\ returned' = [returned EXCEPT ![r] =
                              [ret |-> <<>>, err |-> BatchErr(Head(results[r]))]]
            /\ opc' = [opc EXCEPT ![r] = "err"]
            /\ ret' = [ret EXCEPT ![r] = <<>>]
            /\ i' = [i EXCEPT ![r] = 0]
       ELSE /\ cancelled' = [cancelled EXCEPT ![r] =
                               @ \/ Head(results[r]).Err # "nil"]
            /\ ret' = [ret EXCEPT ![r] = Append(@, Head(results[r]))]
            /\ i' = [i EXCEPT ![r] = @ + 1]
            /\ UNCHANGED <<returned, opc>>
  /\ UNCHANGED <<urls, tasks, wpc, wtask, parentCancelled, fetched, sent, limVars>>

\* One round of the collection loop: result := <-results; on an error
\* cancelRequests() and return nil, err; else ret = append(ret, result).
OrchCollect(r) ==
  /\ opc[r] = "collect"
  /\ CollectMore(r)
  /\ results[r] # <<>>
  /\ results' = [results EXCEPT ![r] = ResultsAfterRecv(@)]
  /\ reads' = [reads EXCEPT ![r] = @ + 1]
  /\ IF Head(results[r]).Err # "nil"
       THEN /\ cancelled' = [cancelled EXCEPT ![r] = TRUE]
            /\ returned' = [returned EXCEPT ![r] =
                              [ret |-> <<>>, err |-> BatchErr(Head(results[r]))]]
            /\ opc' = [opc EXCEPT ![r] = "err"]
            /\ ret' = [ret EXCEPT ![r] = <<>>]
            /\ i' = [i EXCEPT ![r] = 0]
       ELSE /\ ret' = [ret EXCEPT ![r] = Append(@, Head(results[r]))]
            /\ i' = [i EXCEPT ![r] = @ + 1]
            /\ UNCHANGED <<cancelled, returned, opc>>
  /\ UNCHANGED <<urls, tasks, wpc, wtask, parentCancelled, fetched, sent, limVars>>

\* The loop is over: return ret, nil.  (i and ret are locals: they are 0 and
\* empty in the model once downloadUrls has returned.)
OrchReturnOk(r) ==
  /\ opc[r] = "collect"
  /\ ~CollectMore(r)
  /\ returned' = [returned EXCEPT ![r] = [ret |-> ret[r], err |-> "nil"]]
  /\ opc' = [opc EXCEPT ![r] = "ok"]
  /\ ret' = [ret EXCEPT ![r] = <<>>]
  /\ i' = [i EXCEPT ![r] = 0]
  /\ UNCHANGED <<urls, tasks, results, wpc, wtask, cancelled,
                 parentCancelled, fetched, sent, reads, limVars>>

\* The context passed to downloadUrls (r.Context()) becomes done, while a
\* downloadUrl call of the batch can still observe it.
ParentCancel(r) ==
  /\ opc[r] # "none"
  /\ \E w \in Workers : wpc[r][w] # "done"
  /\ ~parentCancelled[r]
  /\ parentCancelled' = [parentCancelled EXCEPT ![r] = TRUE]
  /\ UNCHANGED <<urls, tasks, results, wpc, wtask, opc, i, ret, returned,
                 cancelled, fetched, sent, reads, limVars>>

NextBatch ==
  \E r \in BatchReqs :
    \/ \E us \in Batches : downloadUrls(r, us)
    \/ \E w \in Workers : WorkerRange(r, w)
    \/ \E w \in Workers : WorkerSend(r, w)
    \/ OrchCollect(r)
    \/ OrchReturnOk(r)
    \/ ParentCancel(r)

SpecBatch == Init /\ [][NextBatch]_vars

\* Fair scheduling of the goroutines of a batch; every downloadUrl call
\* returns (the client has a timeout).
FairBatch ==
  /\ SpecBatch
  /\ \A r \in BatchReqs :
       /\ WF_vars(OrchCollect(r))
       /\ WF_vars(OrchReturnOk(r))
       /\ \A w \in Workers :
            /\ WF_vars(WorkerRange(r, w))
            /\ WF_vars(WorkerSend(r, w))

Returned(r) == opc[r] \in {"ok", "err"}
AllWorkersDone(r) == \A w \in Workers : wpc[r][w] = "done"
\* Number of entries of the sequence q that are the URL u.
Count(q, u) == Cardinality({k \in 1..Len(q) : q[k] = u})
UrlsOf(outs) == [k \in 1..Len(outs) |-> outs[k].Url]
HasFailing(q) == \E k \in 1..Len(q) : q[k] \in FailingUrls

----------------------------------------------------------------------------
(* Handler.onRequest *)

\* Positions of a request that has been answered.
Answered == {"resp400", "resp503", "respReadErr", "respTooMany", "respFetchErr", "respOk"}

Methods == {"POST", "GET"}

\* What readRequest(r.Body) yields: an error (unreadable body or bad JSON) or
\* the list of URLs, here up to one URL more than the handler accepts.
HandlerUrls == {"a", "bad"}
RequestBodies ==
  {[err |-> TRUE, urls |-> <<>>]} \cup
  {[err |-> FALSE, urls |-> us] :
     us \in UNION {[1..n -> HandlerUrls] : n \in 0..(MaxUrlsPerRequest + 1)}}

\* The requests served concurrently, and what each of them sends: request 1,
\* whose batch is followed, sends any body; request 2 sends a batch of at most
\* one URL or a body that is rejected; request 3 sends a body that is rejected.
HandlerReqs == {1, 2, 3}
ShortBodies ==
  {b \in RequestBodies : b.err \/ Len(b.urls) <= 1 \/ Len(b.urls) > MaxUrlsPerRequest}
RejectedBodies ==
  {b \in RequestBodies : b.err \/ Len(b.urls) > MaxUrlsPerRequest}
BodiesOf(r) ==
  IF r \in BatchReqs THEN RequestBodies
  ELSE IF r = 2 THEN ShortBodies ELSE RejectedBodies

\* onRequest up to the Acquire call: a request that is not a POST is answered
\* 400 at once; a POST calls h.limiter.Acquire().
OnRequest(r, m) ==
  /\ pc[r] = "idle"
  /\ pc' = [pc EXCEPT ![r] = IF m # "POST" THEN "resp400" ELSE "load"]
  /\ startFull' = [startFull EXCEPT ![r] =
                     (m = "POST" /\ clientCount >= MaxConcurrentClients)]
  /\ UNCHANGED <<clientCount, current, calls, dirty, anyRelease, batchVars>>

\* Mutation of OnLimitReached: the release is deferred before the error of
\* Acquire is tested, so the refused request releases too.
OnLimitReachedReleases(r) ==
  /\ pc[r] = "refused"
  /\ pc' = [pc EXCEPT ![r] = "resp503"]
  /\ clientCount' = clientCount + ReleaseDelta
  /\ UNCHANGED <<current, calls, dirty, startFull, anyRelease, batchVars>>

\* Acquire returned the error: answer 503 "Max parallel requests reached" and
\* return (the release is not yet deferred).
OnLimitReached(r) ==
  /\ pc[r] = "refused"
  /\ pc' = [pc EXCEPT ![r] = "resp503"]
  /\ UNCHANGED <<clientCount, current, calls, dirty, startFull, anyRelease, batchVars>>

\* Mutation of ExitReleases: the release is called at the end of the success
\* path instead of being deferred.
ExitReleasesOnSuccess(resp) == resp = "respOk"

\* 'defer h.limiter.release()': every return after the Acquire releases.
ExitReleases(resp) == TRUE

\* onRequest returns after a successful Acquire: the answer is written and
\* the deferred release runs.
HandlerExit(r, resp) ==
  /\ pc[r] = "acquired"
  /\ pc' = [pc EXCEPT ![r] = resp]
  /\ IF ExitReleases(resp)
       THEN /\ clientCount' = clientCount + ReleaseDelta
            /\ dirty' = MarkDirty(r)
            /\ anyRelease' = TRUE
       ELSE UNCHANGED <<clientCount, dirty, anyRelease>>
  /\ startFull' = [startFull EXCEPT ![r] = FALSE]
  /\ UNCHANGED <<current, calls, batchVars>>

\* readRequest fails, or yields more than MaxUrlsPerRequest URLs: answer
\* with the reason and return.
OnBadBody(r, body) ==
  /\ opc[r] = "none"
  /\ \/ /\ body.err
        /\ HandlerExit(r, "respReadErr")
     \/ /\ ~body.err
        /\ Len(body.urls) > MaxUrlsPerRequest
        /\ HandlerExit(r, "respTooMany")

\* readRequest yields at most MaxUrlsPerRequest URLs: downloadUrls(r.Context(),
\* h.client, urls) is called.
OnBatch(r, body) ==
  /\ pc[r] = "acquired"
  /\ ~body.err
  /\ Len(body.urls) <= MaxUrlsPerRequest
  /\ downloadUrls(r, body.urls)

\* downloadUrls has returned: answer with its error or with its outcomes and
\* return.
OnBatchReturn(r) ==
  /\ Returned(r)
  /\ HandlerExit(r, IF opc[r] = "ok" THEN "respOk" ELSE "respFetchErr")

\* The program: every request is served by its own goroutine running
\* onRequest, the workers of its batch run beside it.  The client of the
\* followed request may disconnect, which cancels r.Context().
Next ==
  \E r \in HandlerReqs :
    \/ \E m \in Methods : OnRequest(r, m)
    \/ AcquireLoad(r)
    \/ AcquireCas(r)
    \/ OnLimitReached(r)
    \/ \E body \in BodiesOf(r) : OnBadBody(r, body)
    \/ \E body \in BodiesOf(r) : OnBatch(r, body)
    \/ \E w \in Workers : WorkerRange(r, w)
    \/ \E w \in Workers : WorkerSend(r, w)
    \/ OrchCollect(r)
    \/ OrchReturnOk(r)
    \/ (r \in BatchReqs /\ ParentCancel(r))
    \/ OnBatchReturn(r)

Spec == Init /\ [][Next]_vars

\* Fetches in flight: downloadUrl calls of batch r that have not returned.
InFlight(r) == Cardinality({w \in Workers : wpc[r][w] = "fetch"})
RECURSIVE InFlightUpTo(_)
InFlightUpTo(n) == IF n = 0 THEN 0 ELSE InFlight(n) + InFlightUpTo(n - 1)
TotalInFlight == InFlightUpTo(NumReqs)

\* Callers whose Acquire succeeded and whose release has not taken effect.
Holders == {c \in Reqs : pc[c] = "acquired"}

----------------------------------------------------------------------------
(* Properties of the limiter *)

\* C1: under every interleaving of Acquire and release (release only by a
\* holder, once), 0 <= clientCount <= MaxConcurrentClients in every state.
C1_CounterInRange ==
  /\ clientCount >= 0
  /\ clientCount <= MaxConcurrentClients

C1_Witness ==
  /\ clientCount = MaxConcurrentClients
  /\ anyRelease
  /\ \E c \in Reqs : pc[c] = "refused"

\* C2: clientCount equals the number of callers whose compare-and-swap took
\* effect and whose release has not yet taken effect: no increment or
\* decrement is lost or duplicated.
C2_CounterIsHolders == clientCount = Cardinality(Holders)

C2_Witness ==
  /\ Cardinality(Holders) = MaxConcurrentClients
  /\ anyRelease
  /\ \E c \in Reqs : pc[c] = "load" /\ dirty[c] /\ current[c] < clientCount

\* C3: as long as no release took place, no Acquire is refused before
\* MaxConcurrentClients admissions are held (so the first
\* MaxConcurrentClients calls all succeed), an Acquire that started with all
\* of them held is never admitted, and a refusal leaves the counter alone.
C3_FullThenRefused ==
  /\ [](~anyRelease =>
         \A c \in Reqs :
           /\ pc[c] = "refused" => Cardinality(Holders) = MaxConcurrentClients
           /\ startFull[c] => pc[c] \in {"load", "refused"})
  /\ [][\A c \in Reqs :
          (pc[c] # "refused" /\ pc'[c] = "refused") => clientCount' = clientCount]_vars

C3_Witness ==
  /\ ~anyRelease
  /\ Cardinality(Holders) = MaxConcurrentClients
  /\ clientCount = MaxConcurrentClients
  /\ \E c \in Reqs : startFull[c] /\ pc[c] = "refused"

\* C9: under fair scheduling and finitely many calls, every Acquire call
\* returns (admitted or refused), and its loop goes round again only when
\* another caller wrote the counter between its load and its swap.
C9_AcquireReturns ==
  /\ \A c \in Reqs : (pc[c] \in {"load", "cas"}) ~> (pc[c] \in {"acquired", "refused"})
  /\ [][\A c \in Reqs : (pc[c] = "cas" /\ pc'[c] = "load") => dirty[c]]_vars

C9_Witness ==
  \E c \in Reqs : pc[c] = "load" /\ dirty[c] /\ current[c] # clientCount /\ calls < MaxCalls

----------------------------------------------------------------------------
(* Properties of downloadUrls *)

\* C4: when every URL of the batch fetches successfully and the parent
\* context is not cancelled, downloadUrls returns Ok, never Err, and the
\* outcomes it returns are, as a multiset of URLs, exactly the input: one
\* outcome per queue entry, none with an error, in whatever order.
C4_AllSucceedOk ==
  \A r \in BatchReqs :
    (Returned(r) /\ ~HasFailing(urls[r]) /\ ~parentCancelled[r]) =>
      /\ opc[r] = "ok"
      /\ returned[r].err = "nil"
      /\ Len(returned[r].ret) = Len(urls[r])
      /\ \A u \in Urls : Count(UrlsOf(returned[r].ret), u) = Count(urls[r], u)
      /\ {returned[r].ret[k].idx : k \in 1..Len(returned[r].ret)} = 1..Len(urls[r])
      /\ \A k \in 1..Len(returned[r].ret) :
           /\ returned[r].ret[k].Err = "nil"
           /\ returned[r].ret[k].Result = Body(returned[r].ret[k].Url)

\* A batch with a duplicate, returned Ok in an order that is not the input's.
C4_Witness ==
  \E r \in BatchReqs :
    /\ opc[r] = "ok"
    /\ ~parentCancelled[r]
    /\ Len(urls[r]) = MaxBatch
    /\ Count(urls[r], "a") = 2
    /\ UrlsOf(returned[r].ret) # urls[r]

\* C5: a batch with a failing URL never returns Ok: it returns Err, the Err
\* names a URL of the batch whose outcome carried an error, and no outcome
\* is returned with it.
C5_FailingBatchErr ==
  /\ [](\A r \in BatchReqs :
          (Returned(r) /\ HasFailing(urls[r])) =>
            /\ opc[r] = "err"
            /\ returned[r].ret = <<>>
            /\ returned[r].err[2] # "nil"
            /\ \E k \in 1..Len(urls[r]) : returned[r].err[1] = urls[r][k])
  /\ [][\A r \in BatchReqs :
          (opc[r] = "collect" /\ opc'[r] = "err") =>
            /\ results[r] # <<>>
            /\ Head(results[r]).Err # "nil"
            /\ Head(results[r]).Url = urls[r][Head(results[r]).idx]
            /\ sent[r][Head(results[r]).idx] = 1
            /\ returned'[r].err = <<Head(results[r]).Url, Head(results[r]).Err>>]_vars

\* Err after a successful outcome had already been collected.
C5_Witness ==
  \E r \in BatchReqs :
    /\ opc[r] = "err"
    /\ HasFailing(urls[r])
    /\ ~parentCancelled[r]
    /\ reads[r] > 1
    /\ returned[r].err = <<"bad", "fail">>

\* C6: for an empty batch downloadUrls never receives from the results
\* channel and no worker fetches or sends anything; it returns Ok with zero
\* outcomes, and every worker ends on finding the closed queue empty.
C6_EmptyBatch ==
  /\ [](\A r \in BatchReqs :
          (opc[r] # "none" /\ urls[r] = <<>>) =>
            /\ reads[r] = 0
            /\ opc[r] \in {"collect", "ok"}
            /\ \A w \in Workers : wpc[r][w] \in {"range", "done"}
            /\ results[r] = <<>>
            /\ opc[r] = "ok" => returned[r] = [ret |-> <<>>, err |-> "nil"])
  /\ \A r \in BatchReqs :
       (opc[r] # "none" /\ urls[r] = <<>>) ~> (opc[r] = "ok" /\ AllWorkersDone(r))

C6_Witness ==
  \E r \in BatchReqs :
    /\ urls[r] = <<>>
    /\ opc[r] = "ok"
    /\ returned[r] = [ret |-> <<>>, err |-> "nil"]
    /\ AllWorkersDone(r)

\* C7: under fair scheduling, with every fetch returning, every worker of a
\* batch that has returned (Ok or Err) ends; none stays on the task queue or
\* on the results channel.
C7_WorkersEnd ==
  \A r \in BatchReqs : Returned(r) ~> AllWorkersDone(r)

\* Every worker has ended after an Err return that left an entry queued and
\* outcomes unread in the results channel.
C7_Witness ==
  \E r \in BatchReqs :
    /\ opc[r] = "err"
    /\ AllWorkersDone(r)
    /\ results[r] # <<>>
    /\ \E k \in 1..Len(urls[r]) : fetched[r][k] = <<TRUE>>

\* C8: whenever the collection loop has an error outcome next in the results
\* channel, its step that triggers cancellation and returns Err is enabled,
\* whatever the workers are doing.
C8_ErrReturnNotDelayed ==
  \A r \in BatchReqs :
    (opc[r] = "collect" /\ CollectMore(r) /\ results[r] # <<>>
       /\ Head(results[r]).Err # "nil") =>
      ENABLED (OrchCollect(r) /\ opc'[r] = "err" /\ cancelled'[r]
                 /\ wpc' = wpc /\ tasks' = tasks)

\* downloadUrls has returned Err while a worker fetches and a URL is queued.
C8_Witness ==
  \E r \in BatchReqs :
    /\ opc[r] = "err"
    /\ cancelled[r]
    /\ tasks[r] # <<>>
    /\ \E w \in Workers : wpc[r][w] = "fetch"

\* C10: every queue entry is taken by at most one worker and gives at most
\* one outcome; an entry is queued exactly while nobody has taken it and is
\* held by exactly one worker from its take to its send; once all workers
\* have ended every entry was taken once and sent once, also the entries
\* taken after downloadUrls returned.
C10_ExactlyOnce ==
  \A r \in BatchReqs :
    /\ \A k \in 1..Len(urls[r]) :
         /\ Len(fetched[r][k]) <= 1
         /\ sent[r][k] <= Len(fetched[r][k])
         /\ (fetched[r][k] = <<>>) <=> (\E j \in 1..Len(tasks[r]) : tasks[r][j] = k)
         /\ Cardinality({w \in Workers : wtask[r][w] = k})
              = Len(fetched[r][k]) - sent[r][k]
    /\ (opc[r] # "none" /\ AllWorkersDone(r)) =>
         \A k \in 1..Len(urls[r]) : Len(fetched[r][k]) = 1 /\ sent[r][k] = 1

\* All workers ended, with an entry that was taken after the Err return.
C10_Witness ==
  \E r \in BatchReqs :
    /\ AllWorkersDone(r)
    /\ Len(urls[r]) = MaxBatch
    /\ \E k \in 1..Len(urls[r]) :
         /\ fetched[r][k] = <<TRUE>>
         /\ sent[r][k] = 1
    /\ \E k \in 1..Len(urls[r]) : fetched[r][k] = <<FALSE>>

\* Outcomes sent so far by the workers of batch r.
RECURSIVE SumTo(_, _)
SumTo(f, n) == IF n = 0 THEN 0 ELSE f[n] + SumTo(f, n - 1)
SentTotal(r) == SumTo(sent[r], Len(sent[r]))
\* Queue entries whose outcome sits unread in the results channel.
Unread(r) == {results[r][j].idx : j \in 1..Len(results[r])}

\* C11 (as claimed): every outcome a worker produced is consumed exactly
\* once: once the batch is over (downloadUrls has returned and every worker
\* has ended) each outcome sent was read and none is left in the channel.
C11_ConsumedExactlyOnce ==
  \A r \in BatchReqs :
    (Returned(r) /\ AllWorkersDone(r)) =>
      /\ results[r] = <<>>
      /\ reads[r] = SentTotal(r)

\* C11 (amended): no outcome is read twice and none is lost: outcomes read
\* plus outcomes waiting in the channel are the outcomes sent, and the
\* waiting ones belong to distinct entries; when downloadUrls returns Ok
\* every outcome of the batch was read, exactly once.  (After Err the
\* outcomes not read before the return stay unread.)
C11_ConsumedAtMostOnce ==
  \A r \in BatchReqs :
    /\ reads[r] + Len(results[r]) = SentTotal(r)
    /\ Cardinality(Unread(r)) = Len(results[r])
    /\ \A k \in Unread(r) : sent[r][k] = 1
    /\ opc[r] = "ok" =>
         /\ results[r] = <<>>
         /\ reads[r] = Len(urls[r])
         /\ SentTotal(r) = Len(urls[r])

\* Err was returned after one successful outcome was read; two outcomes
\* stay unread for good.
C11_Witness ==
  \E r \in BatchReqs :
    /\ opc[r] = "err"
    /\ AllWorkersDone(r)
    /\ reads[r] = 2
    /\ Len(results[r]) = 1
    /\ Len(urls[r]) = MaxBatch

\* C14: the results channel never holds more than len(urls) outcomes, and
\* whenever a worker is about to send, its send is enabled, whether or not
\* downloadUrls still reads.
C14_SendNeverBlocks ==
  \A r \in BatchReqs :
    /\ Len(results[r]) <= Len(urls[r])
    /\ \A w \in Workers : wpc[r][w] = "fetch" => ENABLED WorkerSend(r, w)

\* A worker about to send into a channel nobody reads any more, with every
\* other slot taken.
C14_Witness ==
  \E r \in BatchReqs :
    /\ opc[r] = "err"
    /\ Len(urls[r]) = MaxBatch
    /\ Len(results[r]) = MaxBatch - 2
    /\ \E w \in Workers : wpc[r][w] = "fetch"
    /\ tasks[r] = <<>>

\* C15 (as claimed): once downloadUrls has returned, with Ok or with Err,
\* the cancellation of the batch has been triggered.
C15_CancelledOnReturn ==
  \A r \in BatchReqs : Returned(r) => cancelled[r]

\* C16: the step that returns Err reads an outcome with an error, names its
\* URL and error, had read only error-free outcomes before (they are
\* dropped: nil is returned for the outcomes), and afterwards downloadUrls
\* reads nothing more.
C16_FirstFailureWins ==
  /\ [][\A r \in BatchReqs :
          (opc[r] = "collect" /\ opc'[r] = "err") =>
            /\ Head(results[r]).Err # "nil"
            /\ \A k \in 1..Len(ret[r]) : ret[r][k].Err = "nil"
            /\ reads[r] = Len(ret[r])
            /\ returned'[r] = [ret |-> <<>>,
                               err |-> <<Head(results[r]).Url, Head(results[r]).Err>>]]_vars
  /\ [][\A r \in BatchReqs :
          Returned(r) =>
            /\ reads'[r] = reads[r]
            /\ returned'[r] = returned[r]
            /\ Len(results'[r]) >= Len(results[r])]_vars

\* Err names a URL that is not the first of the batch, after a good outcome
\* was read and dropped, with a later failure sitting unread.
C16_Witness ==
  \E r \in BatchReqs :
    /\ opc[r] = "err"
    /\ reads[r] = 2
    /\ returned[r].err[1] # urls[r][2]
    /\ returned[r].err[1] # urls[r][1]
    /\ \E j \in 1..Len(results[r]) : results[r][j].Err # "nil"

\* C17: under fair scheduling, with every fetch returning, a started
\* downloadUrls returns Ok or Err, and it never performs more than len(urls)
\* receives.
C17_BatchReturns ==
  /\ \A r \in BatchReqs : (opc[r] = "collect") ~> Returned(r)
  /\ [](\A r \in BatchReqs : reads[r] <= Len(urls[r]))

\* Ok for a batch larger than the worker pool, after len(urls) receives.
C17_Witness ==
  \E r \in BatchReqs :
    /\ opc[r] = "ok"
    /\ Len(urls[r]) > MaxConcurrentTasksPerRequest
    /\ reads[r] = Len(urls[r])

\* C18: Acquire returns the limit error only from its load, and only when
\* the counter it loads is at or above the limit; a failed compare-and-swap
\* sends the caller back to the load, never to the error.
C18_NoSpuriousRefusal ==
  /\ [][\A c \in Reqs :
          (pc[c] # "refused" /\ pc'[c] = "refused") =>
            (pc[c] = "load" /\ clientCount >= MaxConcurrentClients)]_vars
  /\ [][\A c \in Reqs :
          (pc[c] = "cas" /\ clientCount # current[c]) => pc'[c] \in {"cas", "load"}]_vars

\* A call that started below the limit and met the limit at its load.
C18_Witness ==
  \E c \in Reqs :
    /\ pc[c] = "refused"
    /\ ~startFull[c]
    /\ clientCount = MaxConcurrentClients
    /\ ~anyRelease

\* C19: while the parent context is not done, every outcome that carries
\* the context's error was sent after downloadUrls returned Err (so it was
\* never read), cancelRequests has run only in the step that returned Err,
\* and the error that Err names is a failure of the fetch itself.
C19_NoSelfInducedErr ==
  \A r \in BatchReqs :
    ~parentCancelled[r] =>
      /\ cancelled[r] => opc[r] = "err"
      /\ opc[r] = "err" => returned[r].err[2] = "fail"
      /\ \A k \in 1..Len(ret[r]) : ret[r][k].Err = "nil"
      /\ (\E j \in 1..Len(results[r]) : results[r][j].Err = "ctx") => opc[r] = "err"

\* Err names the failing URL while an outcome cancelled by this batch's own
\* cancellation sits unread.
C19_Witness ==
  \E r \in BatchReqs :
    /\ ~parentCancelled[r]
    /\ opc[r] = "err"
    /\ returned[r].err = <<"bad", "fail">>
    /\ \E j \in 1..Len(results[r]) :
         results[r][j].Err = "ctx" /\ results[r][j].Url \in GoodUrls

----------------------------------------------------------------------------
(* Properties of the handler *)

\* C12: a request whose Acquire succeeded leaves onRequest by one of the four
\* answers (read failure, too many URLs, batch Err, batch Ok), the step that
\* leaves takes exactly one off clientCount, an answered request takes no
\* further step, and after every step, when no request holds an admission,
\* the counter is 0.
C12_ReleaseOnEveryExit ==
  [][/\ Holders' = {} => clientCount' = 0
     /\ \A r \in HandlerReqs :
          /\ (pc[r] = "acquired" /\ pc'[r] # "acquired") =>
               /\ pc'[r] \in {"respReadErr", "respTooMany", "respFetchErr", "respOk"}
               /\ clientCount' = clientCount - 1
          /\ pc[r] \in Answered => pc'[r] = pc[r]]_vars

\* Three admitted requests have left by three different paths and the
\* counter is back to 0.
C12_Witness ==
  /\ pc[1] = "respFetchErr"
  /\ pc[2] = "respOk"
  /\ pc[3] \in {"respReadErr", "respTooMany"}
  /\ clientCount = 0

\* C13: a request that Acquire refused, and a request that is not a POST,
\* has no batch; no step of a request other than its admission and its exit
\* after admission changes clientCount; 503 is answered only to a refused
\* request, 400 only on entry, and the fetch failure only after downloadUrls
\* returned Err to an admitted request; a refused or non-POST request takes no
\* further step.
C13_RefusedTouchesNothing ==
  [][\A r \in HandlerReqs :
          /\ pc'[r] \in {"refused", "resp503", "resp400"} => opc'[r] = "none"
          /\ (pc'[r] # pc[r] /\ pc'[r] \in {"load", "cas", "refused", "resp503", "resp400"})
               => clientCount' = clientCount
          /\ pc[r] = "refused" => pc'[r] \in {"refused", "resp503"}
          /\ (pc'[r] = "resp503" /\ pc[r] # "resp503") => pc[r] = "refused"
          /\ (pc'[r] = "resp400" /\ pc[r] # "resp400") => pc[r] = "idle"
          /\ (pc'[r] = "respFetchErr" /\ pc[r] # "respFetchErr")
               => (pc[r] = "acquired" /\ opc[r] = "err")
          /\ pc[r] \in {"resp503", "resp400"} =>
               (pc'[r] = pc[r] /\ opc'[r] = "none")]_vars

\* A request was answered 503 while the limit is held by two others, one of
\* them with its batch running.
C13_Witness ==
  \E r \in HandlerReqs :
    /\ pc[r] = "resp503"
    /\ opc[r] = "none"
    /\ clientCount = MaxConcurrentClients
    /\ \E q \in HandlerReqs : pc[q] = "acquired" /\ opc[q] = "collect"

\* A worker of batch r is fetching, or can still start a fetch.
Busy(r) ==
  \E w \in Workers :
    \/ wpc[r][w] = "fetch"
    \/ wpc[r][w] = "range" /\ tasks[r] # <<>>

\* Fetches in flight of the batches whose request still holds its admission.
RECURSIVE HeldUpTo(_)
HeldUpTo(n) ==
  IF n = 0 THEN 0
  ELSE (IF pc[n] = "acquired" THEN InFlight(n) ELSE 0) + HeldUpTo(n - 1)
HeldInFlight == HeldUpTo(NumReqs)

\* C20 as stated: the fetches in flight in the whole process never exceed
\* MaxConcurrentClients * MaxConcurrentTasksPerRequest, and a request that has
\* released its admission has no worker that is fetching or can still start
\* a fetch.
C20_ReleaseAfterQuiescence ==
  /\ TotalInFlight <= MaxConcurrentClients * MaxConcurrentTasksPerRequest
  /\ \A r \in HandlerReqs : pc[r] \in Answered => ~Busy(r)

\* C20, amended: the fetches in flight of the batches whose admission is still
\* held never exceed clientCount * MaxConcurrentTasksPerRequest, which is at
\* most MaxConcurrentClients * MaxConcurrentTasksPerRequest; a request that
\* answered with the outcomes has no worker that is fetching or can still
\* start a fetch; a batch with such a worker either still holds its admission
\* or has returned Err, and then its context is cancelled.
C20_HeldFetchesBounded ==
  /\ HeldInFlight <= clientCount * MaxConcurrentTasksPerRequest
  /\ clientCount <= MaxConcurrentClients
  /\ \A r \in HandlerReqs :
       /\ pc[r] = "respOk" => ~Busy(r)
       /\ Busy(r) => \/ pc[r] = "acquired"
                     \/ pc[r] = "respFetchErr" /\ cancelled[r]

\* A request has released its admission after Err while one of its workers
\* is still fetching, beside a fetch of a request that holds an admission.
C20_Witness ==
  \E r, q \in HandlerReqs :
    /\ pc[r] = "respFetchErr"
    /\ InFlight(r) > 0
    /\ pc[q] = "acquired"
    /\ InFlight(q) > 0
    /\ TotalInFlight > HeldInFlight

====
